---- MODULE Spec2Model ----
(***************************************************************************)
(* A model of plonky2's CircuitBuilder (src/plonky2/src/plonk/             *)
(* circuit_builder.rs): the builder's fields, its allocation, wiring and   *)
(* generator operations, and the compilation pass `tomove`.                *)
(*                                                                         *)
(* Field elements, hashes and commitments are modelled symbolically: a     *)
(* hash or a Merkle cap is an injective tag over its input, a domain       *)
(* element k_col * w^row is the pair <<k_col, row>>.                       *)
(*                                                                         *)
(* Not modelled (no effect on the compiled output that is checked here):   *)
(* public_inputs, context_log, marked_targets, the timing tree, the FFT    *)
(* root table and the subgroup.                                            *)
(***************************************************************************)
EXTENDS Integers, Sequences, FiniteSets, TLC

VARIABLES
    phase,                 \* "unconstructed" | "building" | "built" | "panicked"
    config,                \* CircuitConfig (with its FriConfig flattened in)
    fri_field_bits,        \* F::Extension::order().bits() of the field the builder is typed by
    target_index,          \* the next available index for a Target
    copy_constraints,      \* Vec<CopyConstraint>: pairs <<x, y>>
    operations,            \* HashSet<OperationRef>
    generators,            \* Vec<Box<dyn WitnessGenerator>>: each a record with its watch list
    constants_to_targets,  \* HashMap<F, Target>
    targets_to_constants,  \* HashMap<Target, F>
    gate_instances,        \* Vec<GateInstance> read by tomove
    gates,                 \* HashSet<GateRef> read by tomove
    returned,              \* history: the Targets handed out by add_target, in call order
    connect_calls,         \* history: the pairs connect was called with, in call order
    outcome,               \* how the call that ended the builder's life ended
    steps,                 \* the stages of tomove that ran, in order
    circuit_data           \* the CircuitData tomove returned, or NoData

vars == <<phase, config, fri_field_bits, target_index, copy_constraints, operations,
          generators, constants_to_targets, targets_to_constants, gate_instances, gates,
          returned, connect_calls, outcome, steps, circuit_data>>

builder_fields == <<target_index, copy_constraints, operations, generators,
                    constants_to_targets, targets_to_constants, gate_instances, gates>>

(***************************************************************************)
(* Bounds of the model.                                                    *)
(***************************************************************************)
\* The number of builder calls that add something, before compilation.
MaxCalls == 5
\* config.num_routed_wires of the configurations explored.
NumRoutedWires == 3

(***************************************************************************)
(* Helpers.                                                                *)
(***************************************************************************)
Max(S) == CHOOSE m \in S : \A x \in S : x <= m

Min(S) == CHOOSE m \in S : \A x \in S : m <= x

RECURSIVE Pow2(_)
Pow2(n) == IF n = 0 THEN 1 ELSE 2 * Pow2(n - 1)

RECURSIVE Sum(_)
Sum(s) == IF s = <<>> THEN 0 ELSE Head(s) + Sum(Tail(s))

\* Every order in which a HashSet's iterator can yield the set S.
Orders(S) == {s \in [1..Cardinality(S) -> S] : \A i, j \in 1..Cardinality(S) : i # j => s[i] # s[j]}

NoData == [kind |-> "none"]

NoOutcome == [op |-> "none", arg |-> 0, result |-> "none"]

Panic(op, arg) == [op |-> op, arg |-> arg, result |-> "panic"]

(***************************************************************************)
(* Configurations.                                                         *)
(***************************************************************************)
CircuitConfig(nqr, rb, pow, sec, mqdf, zk, arities) ==
    [num_routed_wires |-> NumRoutedWires,
     num_query_rounds |-> nqr,
     rate_bits |-> rb,
     proof_of_work_bits |-> pow,
     security_bits |-> sec,
     max_quotient_degree_factor |-> mqdf,
     zero_knowledge |-> zk,
     reduction_arity_bits |-> arities]

\* The configurations of Spec: the compilation parameters vary, one rate falls
\* short of the security target.
Configs ==
    {CircuitConfig(2, rb, 1, 4, mqdf, zk, ar) :
        rb \in {1, 2}, mqdf \in {2, 8}, zk \in BOOLEAN, ar \in {<<>>, <<1, 1>>}}

\* The configurations of SpecSecurity: the security parameters vary.
SecurityConfigs ==
    {CircuitConfig(nqr, rb, pow, sec, 8, FALSE, <<>>) :
        nqr \in {1, 2}, rb \in {1, 2}, pow \in {0, 1}, sec \in {2, 3}}

FieldBitsChoices == {2, 128}

(***************************************************************************)
(* CircuitBuilder::new and check_config.                                   *)
(***************************************************************************)
fri_query_security_bits(c) == c.num_query_rounds * c.rate_bits + c.proof_of_work_bits

fri_security_bits(c, field_bits) == Min({field_bits, fri_query_security_bits(c)})

\* check_config with the comparison turned round.
check_config_flipped(c, field_bits) == fri_security_bits(c, field_bits) <= c.security_bits

\* TRUE when the assertion of check_config passes.
check_config(c, field_bits) == fri_security_bits(c, field_bits) >= c.security_bits

new ==
    /\ phase = "unconstructed"
    /\ target_index' = 0
    /\ copy_constraints' = <<>>
    /\ operations' = {}
    /\ generators' = <<>>
    /\ constants_to_targets' = <<>>
    /\ targets_to_constants' = <<>>
    /\ gate_instances' = <<>>
    /\ gates' = {}
    /\ IF check_config(config, fri_field_bits)
       THEN phase' = "building" /\ outcome' = NoOutcome
       ELSE phase' = "panicked" /\ outcome' = Panic("new", 0)
    /\ UNCHANGED <<config, fri_field_bits, returned, connect_calls, steps, circuit_data>>

(***************************************************************************)
(* Target allocation.                                                      *)
(***************************************************************************)
Size == target_index + Len(copy_constraints) + Len(generators) + Len(gate_instances)
        + Cardinality(operations)

Building == phase = "building"

Targets == 0..(target_index - 1)

\* add_target without the increment of target_index.
add_target_stuck(from) == [target |-> from, next |-> from]

\* add_target from index `from`: the Target returned and the next index.
add_target_result(from) == [target |-> from, next |-> from + 1]

RECURSIVE add_targets_result(_, _)
add_targets_result(from, n) ==
    IF n = 0 THEN [targets |-> <<>>, next |-> from]
    ELSE LET one == add_target_result(from)
             rest == add_targets_result(one.next, n - 1)
         IN [targets |-> <<one.target>> \o rest.targets, next |-> rest.next]

add_target ==
    /\ Building
    /\ Size < MaxCalls
    /\ LET r == add_target_result(target_index)
       IN /\ target_index' = r.next
          /\ returned' = Append(returned, r.target)
    /\ UNCHANGED <<phase, config, fri_field_bits, copy_constraints, operations, generators,
                   constants_to_targets, targets_to_constants, gate_instances, gates,
                   connect_calls, outcome, steps, circuit_data>>

add_targets ==
    /\ Building
    /\ \E n \in 2..(MaxCalls - Size) :
          LET r == add_targets_result(target_index, n)
          IN /\ target_index' = r.next
             /\ returned' = returned \o r.targets
    /\ UNCHANGED <<phase, config, fri_field_bits, copy_constraints, operations, generators,
                   constants_to_targets, targets_to_constants, gate_instances, gates,
                   connect_calls, outcome, steps, circuit_data>>


(***************************************************************************)
(* Operations, gates, copy constraints and generators.                     *)
(***************************************************************************)
OperationIds == {"RangeCheckOperation"}

\* The operation tomove adds; its public_inputs_hash (hash_n_to_hash of the
\* public inputs) is not tracked.
PublicInputOperation == "PublicInputOperation"

\* HashSet::insert of the operation.
add_operation_to(ops, op) == ops \cup {op}

add_operation ==
    /\ Building
    /\ Size < MaxCalls
    /\ \E op \in OperationIds : operations' = add_operation_to(operations, op)
    /\ UNCHANGED <<phase, config, fri_field_bits, target_index, copy_constraints, generators,
                   constants_to_targets, targets_to_constants, gate_instances, gates,
                   returned, connect_calls, outcome, steps, circuit_data>>

\* The gate types of the model: id, constraint degree, number of constants,
\* number of constraints, and whether an instance brings a generator that
\* watches the first routed wire of its row.
GateTypes ==
    {[id |-> "ArithmeticGate", degree |-> 3, num_constants |-> 2, num_constraints |-> 4,
      has_generator |-> TRUE],
     [id |-> "ConstantGate", degree |-> 1, num_constants |-> 2, num_constraints |-> 2,
      has_generator |-> FALSE],
     [id |-> "NoopGate", degree |-> 0, num_constants |-> 0, num_constraints |-> 0,
      has_generator |-> FALSE]}

Gate(id) == CHOOSE g \in GateTypes : g.id = id

UserGateIds == {"ArithmeticGate", "ConstantGate"}

\* add_gate: its body is todo!(), every call panics.
add_gate ==
    /\ Building
    /\ \E g \in UserGateIds :
          /\ phase' = "panicked"
          /\ outcome' = Panic("add_gate", 0)
    /\ UNCHANGED <<config, fri_field_bits, builder_fields, returned, connect_calls, steps, circuit_data>>

\* The gate insertion that fills the gate_instances and gates tomove reads:
\* the instance is pushed at the next row and its type registered.
push_gate_instance(instances, g) == Append(instances, g)

register_gate(gs, g) == gs \cup {g}

add_gate_instance ==
    /\ Building
    /\ Size < MaxCalls
    /\ \E g \in UserGateIds :
          /\ gate_instances' = push_gate_instance(gate_instances, g)
          /\ gates' = register_gate(gates, g)
    /\ UNCHANGED <<phase, config, fri_field_bits, target_index, copy_constraints, operations,
                   generators, constants_to_targets, targets_to_constants,
                   returned, connect_calls, outcome, steps, circuit_data>>

\* connect that records nothing.
connect_dropped(constraints, x, y) == constraints

\* copy_constraints.push(CopyConstraint::new((x, y), ..))
connect_push(constraints, x, y) == Append(constraints, <<x, y>>)

connect ==
    /\ Building
    /\ Size < MaxCalls
    /\ \E x, y \in Targets :
          /\ copy_constraints' = connect_push(copy_constraints, x, y)
          /\ connect_calls' = Append(connect_calls, <<x, y>>)
    /\ UNCHANGED <<phase, config, fri_field_bits, target_index, operations, generators,
                   constants_to_targets, targets_to_constants, gate_instances, gates,
                   returned, outcome, steps, circuit_data>>

\* A generator, as far as compilation reads it: its watch list.
Generator(watch) == [watch_list |-> watch]

\* CopyGenerator { src, dst } watches its source.
CopyGenerator(src, dst) == Generator(<<src>>)

WatchLists == {<<a>> : a \in Targets} \cup {<<a, b>> : a, b \in Targets}

\* generators.extend(generators)
add_generators(gens, more) == gens \o more

\* generators.push(Box::new(generator.adapter()))
add_simple_generator_push(gens, g) == Append(gens, g)

add_simple_generator ==
    /\ Building
    /\ Size < MaxCalls
    /\ \E w \in WatchLists : generators' = add_simple_generator_push(generators, Generator(w))
    /\ UNCHANGED <<phase, config, fri_field_bits, target_index, copy_constraints, operations,
                   constants_to_targets, targets_to_constants, gate_instances, gates,
                   returned, connect_calls, outcome, steps, circuit_data>>

generate_copy ==
    /\ Building
    /\ Size < MaxCalls
    /\ \E src, dst \in Targets :
          generators' = add_simple_generator_push(generators, CopyGenerator(src, dst))
    /\ UNCHANGED <<phase, config, fri_field_bits, target_index, copy_constraints, operations,
                   constants_to_targets, targets_to_constants, gate_instances, gates,
                   returned, connect_calls, outcome, steps, circuit_data>>

(***************************************************************************)
(* Constants.                                                              *)
(***************************************************************************)
FieldValues == {0, 1, 2}

None == [some |-> FALSE, value |-> 0]

Some(v) == [some |-> TRUE, value |-> v]

\* The lookup with unwrap_or_default: a Target without an entry reads as zero.
target_as_constant_default(target) ==
    IF target \in DOMAIN targets_to_constants
    THEN Some(targets_to_constants[target])
    ELSE Some(0)

\* targets_to_constants.get(&target).cloned()
target_as_constant(target) ==
    IF target \in DOMAIN targets_to_constants
    THEN Some(targets_to_constants[target])
    ELSE None

\* constant: its body is todo!(), every call panics before it reads or writes
\* either cache.
constant ==
    /\ Building
    /\ \E c \in FieldValues :
          /\ phase' = "panicked"
          /\ outcome' = Panic("constant", c)
    /\ UNCHANGED <<config, fri_field_bits, builder_fields, returned, connect_calls, steps, circuit_data>>

(***************************************************************************)
(* build, build_prover, build_verifier.                                    *)
(***************************************************************************)
\* build: its body is todo!().
build ==
    /\ Building
    /\ phase' = "panicked"
    /\ outcome' = Panic("build", 0)
    /\ UNCHANGED <<config, fri_field_bits, builder_fields, returned, connect_calls, steps, circuit_data>>

\* build_prover destructures what self.build() returns; build() panics first.
build_prover ==
    /\ Building
    /\ phase' = "panicked"
    /\ outcome' = Panic("build_prover", 0)
    /\ UNCHANGED <<config, fri_field_bits, builder_fields, returned, connect_calls, steps, circuit_data>>

build_verifier ==
    /\ Building
    /\ phase' = "panicked"
    /\ outcome' = Panic("build_verifier", 0)
    /\ UNCHANGED <<config, fri_field_bits, builder_fields, returned, connect_calls, steps, circuit_data>>


(***************************************************************************)
(* Compilation: the stages of tomove.                                      *)
(***************************************************************************)
is_power_of_two(n) == \E k \in 0..n : Pow2(k) = n

\* log2_strict: defined on the powers of two, panics elsewhere.
log2_strict(n) == CHOOSE k \in 0..n : Pow2(k) = n

log2_ceil(n) == CHOOSE k \in 0..n : Pow2(k) >= n /\ \A j \in 0..n : Pow2(j) >= n => k <= j

\* The rows blinding adds when the configuration asks for zero knowledge.
num_blinding_rows(c) == IF c.zero_knowledge THEN c.num_query_rounds ELSE 0

RECURSIVE pad(_)
pad(instances) ==
    IF is_power_of_two(Len(instances)) THEN instances
    ELSE pad(Append(instances, "NoopGate"))

blind(instances, c) == instances \o [i \in 1..num_blinding_rows(c) |-> "NoopGate"]

\* blind_and_pad: blinding rows, then filler rows up to a power of two.
blind_and_pad(instances, c) == pad(blind(instances, c))

\* The gate set once the rows of blind_and_pad are registered.
gates_after_pad(gs, before, after) ==
    IF Len(after) > Len(before) THEN gs \cup {"NoopGate"} ELSE gs

\* fri_params(degree_bits): the configured reduction schedule.
fri_params(c, degree_bits) ==
    [reduction_arity_bits |-> c.reduction_arity_bits, degree_bits |-> degree_bits]

total_arities(fp) == Sum(fp.reduction_arity_bits)

\* The assertion left out.
fri_arities_unchecked(fp, degree_bits) == TRUE

\* The assertion on fri_params.total_arities().
fri_arities_ok(fp, degree_bits) == total_arities(fp) <= degree_bits

\* Tree::from_gates: the tree holds the gates in the order of the Vec it is
\* given, every gate under a prefix of log2_ceil(len) bits.
from_gates(gates_vec) ==
    LET bits == log2_ceil(Len(gates_vec))
    IN [gate_tree |-> gates_vec,
        max_filtered_constraint_degree |->
            Max({Gate(gates_vec[i]).degree : i \in 1..Len(gates_vec)}) + bits,
        num_constants |->
            Max({Gate(gates_vec[i]).num_constants : i \in 1..Len(gates_vec)}) + bits]

\* PrefixedGate::from_tree: each gate with its position in the tree as prefix.
prefixed_from_tree(gate_tree) ==
    [i \in 1..Len(gate_tree) |-> [gate |-> gate_tree[i], prefix |-> i - 1]]

\* num_partial_products(n, max_degree).0
num_partial_products(n, q) == n \div q

quotient_key(c, q) == num_partial_products(c.num_routed_wires, q) + q

min_quotient_degree_factor(max_filtered_constraint_degree) ==
    max_filtered_constraint_degree - 1

\* The upper end taken as the larger of the two limits.
max_quotient_degree_factor_max(c) == Max({c.max_quotient_degree_factor, Pow2(c.rate_bits)})

\* config.max_quotient_degree_factor.min(1 << rate_bits)
max_quotient_degree_factor(c) == Min({c.max_quotient_degree_factor, Pow2(c.rate_bits)})

\* The last q of the range with the least key.
quotient_degree_factor_last(c, lo, hi) ==
    CHOOSE q \in lo..hi : \A r \in lo..hi :
        quotient_key(c, q) <= quotient_key(c, r)
        /\ (quotient_key(c, q) = quotient_key(c, r) => q >= r)

\* (lo..=hi).min_by_key(..): the first q of the range with the least key.
quotient_degree_factor(c, lo, hi) ==
    CHOOSE q \in lo..hi : \A r \in lo..hi :
        quotient_key(c, q) <= quotient_key(c, r)
        /\ (quotient_key(c, q) = quotient_key(c, r) => q <= r)

\* constant_polys: per row, the prefix of the row's gate and the gate.
constant_polys(prefixed_gates, instances) ==
    [row \in 1..Len(instances) |->
        LET pg == CHOOSE i \in 1..Len(prefixed_gates) : prefixed_gates[i].gate = instances[row]
        IN <<prefixed_gates[pg].prefix, instances[row]>>]

\* get_unique_coset_shifts: one shift per routed column, pairwise distinct.
get_unique_coset_shifts(degree, num_routed_wires) == [i \in 1..num_routed_wires |-> i]

(***************************************************************************)
(* The Forest and the sigma polynomials.  A wire (row, col) of the padded  *)
(* grid has the index col * degree + row; Target(i) resolves to the wire   *)
(* of index i, and is not on the grid when there is none.                  *)
(***************************************************************************)
grid_size(degree, c) == degree * c.num_routed_wires

on_grid(t, degree, c) == t < grid_size(degree, c)

forest_new(n) == [i \in 0..(n - 1) |-> i]

\* Union of the classes of x and y, every member pointing at its representative.
forest_merge(parents, x, y) ==
    [i \in DOMAIN parents |-> IF parents[i] = parents[y] THEN parents[x] ELSE parents[i]]

RECURSIVE forest_of(_, _)
forest_of(parents, constraints) ==
    IF constraints = <<>> THEN parents
    ELSE forest_of(forest_merge(parents, Head(constraints)[1], Head(constraints)[2]),
                   Tail(constraints))

\* The next wire of w's class in increasing index order, wrapping to the first.
next_in_class(parents, w) ==
    LET class == {v \in DOMAIN parents : parents[v] = parents[w]}
        later == {v \in class : v > w}
    IN IF later = {} THEN Min(class) ELSE Min(later)

\* sigma_vecs[col][row]: the domain element k_col' * w^row' of the next wire.
sigma_vecs_of(parents, k_is, degree, c) ==
    [col \in 1..c.num_routed_wires |->
        [row \in 1..degree |->
            LET nxt == next_in_class(parents, (col - 1) * degree + (row - 1))
            IN <<k_is[(nxt \div degree) + 1], nxt % degree>>]]

\* transpose_poly_values: from one sequence per column to one per row.
transpose_poly_values(vecs, degree) ==
    [row \in 1..degree |-> [col \in 1..Len(vecs) |-> vecs[col][row]]]

(***************************************************************************)
(* Commitment and digest.                                                  *)
(***************************************************************************)
\* The Merkle cap of a batch of value vectors: an injective tag.
MerkleCap(values) == [cap_of |-> values]

\* PolynomialBatch::from_values
from_values(values, rate_bits) ==
    [values |-> values, rate_bits |-> rate_bits, merkle_tree |-> [cap |-> MerkleCap(values)]]

\* C::Hasher::hash(.., false): an injective tag.
Hash(input) == [hash_of |-> input]

(***************************************************************************)
(* Generator indexing.                                                     *)
(***************************************************************************)
\* The generators of the gate instances, in row order.
RECURSIVE gate_generators(_, _)
gate_generators(instances, index) ==
    IF index >= Len(instances) THEN <<>>
    ELSE (IF Gate(instances[index + 1]).has_generator THEN <<Generator(<<index>>)>> ELSE <<>>)
         \o gate_generators(instances, index + 1)

\* The pushes of the indexing loop, in order: <<watch_rep_index, i>>.
RECURSIVE watch_pushes(_, _, _)
watch_pushes(gens, parents, i) ==
    IF i >= Len(gens) THEN <<>>
    ELSE [k \in 1..Len(gens[i + 1].watch_list) |-> <<parents[gens[i + 1].watch_list[k]], i>>]
         \o watch_pushes(gens, parents, i + 1)

RECURSIVE pushed_under(_, _)
pushed_under(pushes, rep) ==
    IF pushes = <<>> THEN <<>>
    ELSE (IF Head(pushes)[1] = rep THEN <<Head(pushes)[2]>> ELSE <<>>)
         \o pushed_under(Tail(pushes), rep)

\* The lists left as pushed.
dedup_skipped(list) == list

\* Vec::dedup: removes consecutive repeated elements.
RECURSIVE dedup(_)
dedup(list) ==
    IF Len(list) <= 1 THEN list
    ELSE IF list[1] = list[2] THEN dedup(Tail(list))
    ELSE <<list[1]>> \o dedup(Tail(list))

\* generator_indices_by_watches: representative -> generator indices.
index_generators(gens, parents) ==
    LET pushes == watch_pushes(gens, parents, 0)
        reps == {pushes[k][1] : k \in 1..Len(pushes)}
    IN [rep \in reps |-> dedup(pushed_under(pushes, rep))]

watches_on_grid(gens, degree, c) ==
    \A i \in 1..Len(gens) : \A k \in 1..Len(gens[i].watch_list) :
        on_grid(gens[i].watch_list[k], degree, c)

\* gates.sort_unstable_by_key(id), then the maximum of num_constraints.
num_gate_constraints(gs) == Max({Gate(g).num_constraints : g \in gs})

(***************************************************************************)
(* tomove: the compilation pass.  `order` is the order in which the        *)
(* HashSet of gates is iterated when it is collected for Tree::from_gates. *)
(***************************************************************************)
\* The instances with blind_and_pad not called.
unpadded_instances == gate_instances

\* self.blind_and_pad(): the instances tomove goes on with.
padded_instances == blind_and_pad(gate_instances, config)

padded_gates == gates_after_pad(gates, gate_instances, padded_instances)

\* The builder as a panic leaves it, with the stages that ran.
Abort(ran, gens) ==
    [ok |-> FALSE, steps |-> ran, generators |-> gens, data |-> NoData]

Done(ran, gens, data) ==
    [ok |-> TRUE, steps |-> ran, generators |-> gens, data |-> data]

\* From the generator indexing to the CircuitData.
tomove_assemble(ran, degree, degree_bits, fp, tree, prefixed_gates, q, k_is, sigma_vecs, parents, commitment) ==
    LET c == config
        cap == commitment.merkle_tree.cap
        verifier_only == [constants_sigmas_cap |-> cap]
        gens == add_generators(generators, gate_generators(padded_instances, 0))
        ran1 == Append(ran, "add_gate_generators")
    IN IF ~watches_on_grid(gens, degree, c)
       THEN Abort(Append(ran1, "index_generators"), gens)
       ELSE
       LET prover_only ==
               [generators |-> gens,
                generator_indices_by_watches |-> index_generators(gens, parents),
                constants_sigmas_commitment |-> commitment,
                sigmas |-> transpose_poly_values(sigma_vecs, degree),
                representative_map |-> parents]
           common ==
               [config |-> c,
                fri_params |-> fp,
                degree_bits |-> degree_bits,
                gates |-> prefixed_gates,
                quotient_degree_factor |-> q,
                num_gate_constraints |-> num_gate_constraints(padded_gates),
                num_constants |-> tree.num_constants,
                num_virtual_targets |-> target_index,
                k_is |-> k_is,
                num_partial_products |-> num_partial_products(c.num_routed_wires, q),
                circuit_digest |-> Hash(cap)]
       IN Done(ran1 \o <<"index_generators", "circuit_digest">>, gens,
               [kind |-> "CircuitData", prover_only |-> prover_only,
                verifier_only |-> verifier_only, common |-> common])

\* From Tree::from_gates to the commitment.
tomove_encode(ran, order, degree, degree_bits, fp) ==
    LET c == config
        tree == from_gates(order)
        prefixed_gates == prefixed_from_tree(tree.gate_tree)
        ran1 == Append(ran, "from_gates")
        lo == min_quotient_degree_factor(tree.max_filtered_constraint_degree)
        hi == max_quotient_degree_factor(c)
    IN IF tree.max_filtered_constraint_degree = 0 \/ lo > hi \/ lo = 0
       THEN Abort(Append(ran1, "quotient_degree_factor"), generators)
       ELSE
       LET q == quotient_degree_factor(c, lo, hi)
           constant_vecs == constant_polys(prefixed_gates, padded_instances)
           k_is == get_unique_coset_shifts(degree, c.num_routed_wires)
           ran2 == ran1 \o <<"quotient_degree_factor", "constant_polys">>
       IN IF \E i \in 1..Len(copy_constraints) :
                ~on_grid(copy_constraints[i][1], degree, c)
                \/ ~on_grid(copy_constraints[i][2], degree, c)
          THEN Abort(Append(ran2, "sigma_vecs"), generators)
          ELSE
          LET parents == forest_of(forest_new(grid_size(degree, c)), copy_constraints)
              sigma_vecs == sigma_vecs_of(parents, k_is, degree, c)
              commitment == from_values(<<constant_vecs>> \o sigma_vecs, c.rate_bits)
          IN tomove_assemble(ran2 \o <<"sigma_vecs", "from_values">>, degree, degree_bits,
                             fp, tree, prefixed_gates, q, k_is, sigma_vecs, parents,
                             commitment)

tomove_result(order) ==
    LET c == config
        ran == <<"hash_n_to_hash", "add_operation", "blind_and_pad">>
        degree == Len(padded_instances)
    IN IF ~is_power_of_two(degree)
       THEN Abort(Append(ran, "log2_strict"), generators)
       ELSE
       LET degree_bits == log2_strict(degree)
           fp == fri_params(c, degree_bits)
       IN IF ~fri_arities_ok(fp, degree_bits)
          THEN Abort(ran \o <<"log2_strict", "fri_params", "assert_total_arities">>, generators)
          ELSE tomove_encode(ran \o <<"log2_strict", "fri_params", "assert_total_arities">>,
                             order, degree, degree_bits, fp)

tomove ==
    /\ Building
    /\ \E order \in Orders(padded_gates) :
          LET r == tomove_result(order)
          IN /\ phase' = IF r.ok THEN "built" ELSE "panicked"
             /\ outcome' = IF r.ok THEN [op |-> "tomove", arg |-> 0, result |-> "returned"]
                           ELSE Panic("tomove", 0)
             /\ steps' = r.steps
             /\ circuit_data' = r.data
             /\ generators' = r.generators
    /\ operations' = add_operation_to(operations, PublicInputOperation)
    /\ gate_instances' = padded_instances
    /\ gates' = padded_gates
    /\ UNCHANGED <<config, fri_field_bits, target_index, copy_constraints,
                   constants_to_targets, targets_to_constants, returned, connect_calls>>

\* Before CircuitBuilder::new: nothing is allocated.
Unconstructed ==
    /\ phase = "unconstructed"
    /\ target_index = 0
    /\ copy_constraints = <<>>
    /\ operations = {}
    /\ generators = <<>>
    /\ constants_to_targets = <<>>
    /\ targets_to_constants = <<>>
    /\ gate_instances = <<>>
    /\ gates = {}
    /\ returned = <<>>
    /\ connect_calls = <<>>
    /\ outcome = NoOutcome
    /\ steps = <<>>
    /\ circuit_data = NoData

Init ==
    /\ config \in Configs
    /\ fri_field_bits = 128
    /\ Unconstructed

InitSecurity ==
    /\ config \in SecurityConfigs
    /\ fri_field_bits \in FieldBitsChoices
    /\ Unconstructed

Next ==
    \/ new
    \/ add_target
    \/ add_targets
    \/ add_operation
    \/ add_gate
    \/ add_gate_instance
    \/ connect
    \/ generate_copy
    \/ add_simple_generator
    \/ constant
    \/ build
    \/ build_prover
    \/ build_verifier
    \/ tomove

Spec == Init /\ [][Next]_vars

\* The same builder over the configurations that vary the security parameters.
SpecSecurity == InitSecurity /\ [][Next]_vars
(***************************************************************************)
(* Properties.                                                             *)
(***************************************************************************)
Last(s) == s[Len(s)]

Built == phase = "built"

CompileStep == phase = "building" /\ phase' = "built"

StrictlyIncreasing(s) == \A i, j \in 1..Len(s) : i < j => s[i] < s[j]

\* C1: compiling one circuit description yields one CommonCircuitData and
\* one constants_sigmas cap, whatever order the gate set is iterated in:
\* every iteration order gives what this compilation returned.
C1_Determinism ==
    [][CompileStep =>
        \A order \in Orders(padded_gates) :
            LET r == tomove_result(order)
            IN /\ r.ok
               /\ r.data.common = circuit_data'.common
               /\ r.data.verifier_only.constants_sigmas_cap
                  = circuit_data'.verifier_only.constants_sigmas_cap]_vars

\* C2: a call of constant(v) returns a Target, the Target cached for v, and
\* target_as_constant on it gives Some(v).
C2_ConstantDedup ==
    outcome.op = "constant" =>
        /\ outcome.result = "returned"
        /\ outcome.arg \in DOMAIN constants_to_targets
        /\ target_as_constant(constants_to_targets[outcome.arg]) = Some(outcome.arg)

\* C3: a step that hands out Targets hands out indices that are strictly
\* above every index handed out before, in increasing order, and changes
\* only target_index, by one per Target.
C3_AddTargetFresh ==
    [][returned' # returned =>
        /\ Len(returned') > Len(returned)
        /\ SubSeq(returned', 1, Len(returned)) = returned
        /\ StrictlyIncreasing(returned')
        /\ target_index' = target_index + (Len(returned') - Len(returned))
        /\ UNCHANGED <<phase, config, copy_constraints, operations, generators,
                       constants_to_targets, targets_to_constants, gate_instances,
                       gates>>]_vars

C3_Witness == Building /\ Len(returned) >= 3 /\ target_index = 3

\* C4: with num_query_rounds * rate_bits + proof_of_work_bits < security_bits
\* construction panics, and the builder holds no gate, operation or target.
C4_SecurityGate ==
    (/\ phase # "unconstructed"
     /\ config.num_query_rounds * config.rate_bits + config.proof_of_work_bits
        < config.security_bits)
    => /\ phase = "panicked"
       /\ outcome = Panic("new", 0)
       /\ target_index = 0
       /\ returned = <<>>
       /\ operations = {}
       /\ gate_instances = <<>>
       /\ gates = {}
       /\ copy_constraints = <<>>
       /\ generators = <<>>
       /\ circuit_data = NoData

C4_Witness ==
    /\ phase = "panicked"
    /\ outcome.op = "new"
    /\ fri_field_bits = 128
    /\ config.num_query_rounds * config.rate_bits + config.proof_of_work_bits
       = config.security_bits - 1

\* The maximum filtered constraint degree of the gates of a compiled circuit.
compiled_max_filtered_constraint_degree ==
    from_gates([i \in 1..Len(circuit_data.common.gates) |-> circuit_data.common.gates[i].gate])
        .max_filtered_constraint_degree

\* C5: once compiled, max_filtered_constraint_degree - 1 <= q and
\* q <= min(config.max_quotient_degree_factor, 2^rate_bits).
C5_QuotientBound ==
    Built =>
        LET q == circuit_data.common.quotient_degree_factor
        IN /\ compiled_max_filtered_constraint_degree - 1 <= q
           /\ q <= config.max_quotient_degree_factor
           /\ q <= Pow2(config.rate_bits)

\* A compilation whose range holds several factors and that selects one
\* strictly inside the upper bound and above the lower one.
C5_Witness ==
    /\ Built
    /\ compiled_max_filtered_constraint_degree - 1 < circuit_data.common.quotient_degree_factor
    /\ circuit_data.common.quotient_degree_factor < Pow2(config.rate_bits)
    /\ circuit_data.common.quotient_degree_factor < config.max_quotient_degree_factor

\* C6: the compiled degree is a power of two, equal to 2^degree_bits, and at
\* least the instances present before padding plus the blinding rows.
C6_Padding ==
    [][CompileStep =>
        LET degree == Len(gate_instances')
        IN /\ \E k \in 0..degree : Pow2(k) = degree
           /\ degree = Pow2(circuit_data'.common.degree_bits)
           /\ degree >= Len(gate_instances) + num_blinding_rows(config)]_vars

\* A compiled circuit that had three instances and blinding rows, padded to 8.
C6_Witness ==
    /\ Built
    /\ config.zero_knowledge
    /\ Len(gate_instances) = 8
    /\ gate_instances[3] # "NoopGate"
    /\ circuit_data.common.degree_bits = 3

\* C7: when the reduction schedule's total arity exceeds degree_bits, tomove
\* panics at the assertion: blind_and_pad has run, the commitment has not,
\* and no CircuitData exists.
C7_FriAbort ==
    (/\ outcome.op = "tomove"
     /\ Sum(config.reduction_arity_bits) > log2_strict(Len(gate_instances)))
    => /\ phase = "panicked"
       /\ circuit_data = NoData
       /\ Last(steps) = "assert_total_arities"
       /\ \E i \in 1..Len(steps) : steps[i] = "blind_and_pad"
       /\ \A i \in 1..Len(steps) : steps[i] # "from_values"

C7_Witness ==
    /\ phase = "panicked"
    /\ outcome.op = "tomove"
    /\ Last(steps) = "assert_total_arities"
    /\ Len(gate_instances) = 2
    /\ gate_instances[1] = "ArithmeticGate"
    /\ config.reduction_arity_bits = <<1, 1>>

\* The wire a sigma value names, as a grid index.
sigma_target(value, k_is, degree) ==
    ((CHOOSE col \in 1..Len(k_is) : k_is[col] = value[1]) - 1) * degree + value[2]

\* The wire sigma maps wire w to; sigmas is indexed by row, then column.
sigma_next(sigmas, k_is, degree, w) ==
    sigma_target(sigmas[(w % degree) + 1][(w \div degree) + 1], k_is, degree)

\* The wires reached from w by following sigma at most n times.
RECURSIVE sigma_orbit(_, _, _, _, _)
sigma_orbit(sigmas, k_is, degree, w, n) ==
    IF n = 0 THEN {w}
    ELSE {w} \cup sigma_orbit(sigmas, k_is, degree, sigma_next(sigmas, k_is, degree, w), n - 1)

\* The root of w: parents followed to a fixed point.
RECURSIVE forest_root(_, _, _)
forest_root(parents, w, n) ==
    IF n = 0 \/ parents[w] = w THEN w ELSE forest_root(parents, parents[w], n - 1)

\* C8: once compiled, both Targets of every connect call have one
\* representative and lie on one cycle of sigma.
C8_Connected ==
    Built =>
        LET parents == circuit_data.prover_only.representative_map
            sigmas == circuit_data.prover_only.sigmas
            k_is == circuit_data.common.k_is
            degree == Pow2(circuit_data.common.degree_bits)
            n == Cardinality(DOMAIN parents)
        IN \A i \in 1..Len(connect_calls) :
              LET x == connect_calls[i][1]
                  y == connect_calls[i][2]
              IN /\ x \in DOMAIN parents /\ y \in DOMAIN parents
                 /\ forest_root(parents, x, n) = forest_root(parents, y, n)
                 /\ y \in sigma_orbit(sigmas, k_is, degree, x, n)
                 /\ x \in sigma_orbit(sigmas, k_is, degree, y, n)

\* A compiled circuit of several rows with a connect of two different
\* Targets, the later-allocated one first.
C8_Witness ==
    /\ Built
    /\ circuit_data.common.degree_bits >= 1
    /\ \E i \in 1..Len(connect_calls) : connect_calls[i][1] > connect_calls[i][2]

\* C9: once compiled, every generator index is listed under the
\* representative of each Target it watches, and every list is strictly
\* increasing (so without repetition).
C9_GeneratorIndex ==
    Built =>
        LET gens == circuit_data.prover_only.generators
            index == circuit_data.prover_only.generator_indices_by_watches
            parents == circuit_data.prover_only.representative_map
            n == Cardinality(DOMAIN parents)
        IN /\ \A i \in 1..Len(gens) : \A k \in 1..Len(gens[i].watch_list) :
                 LET rep == forest_root(parents, gens[i].watch_list[k], n)
                 IN /\ rep \in DOMAIN index
                    /\ \E j \in 1..Len(index[rep]) : index[rep][j] = i - 1
           /\ \A rep \in DOMAIN index : StrictlyIncreasing(index[rep])

\* A compiled circuit where one generator watches two different Targets of
\* one class, and a later generator is listed under the same representative.
C9_Witness ==
    /\ Built
    /\ LET gens == circuit_data.prover_only.generators
           index == circuit_data.prover_only.generator_indices_by_watches
           parents == circuit_data.prover_only.representative_map
       IN \E i \in 1..Len(gens) :
             /\ Len(gens[i].watch_list) = 2
             /\ gens[i].watch_list[1] # gens[i].watch_list[2]
             /\ parents[gens[i].watch_list[1]] = parents[gens[i].watch_list[2]]
             /\ Len(index[parents[gens[i].watch_list[1]]]) >= 2

\* The three outputs of tomove come from one commitment and one sigma_vecs.
OutputsOfOneCompilation ==
    Built =>
        LET commitment == circuit_data.prover_only.constants_sigmas_commitment
            cap == circuit_data.verifier_only.constants_sigmas_cap
            degree == Pow2(circuit_data.common.degree_bits)
        IN /\ cap = commitment.merkle_tree.cap
           /\ cap = MerkleCap(commitment.values)
           /\ circuit_data.common.circuit_digest = Hash(cap)
           /\ circuit_data.prover_only.sigmas
              = transpose_poly_values(Tail(commitment.values), degree)

\* C10: the three outputs of a compilation are mutually consistent, and
\* build_prover and build_verifier return components of one compilation.
C10_OutputsConsistent ==
    /\ OutputsOfOneCompilation
    /\ outcome.op \in {"build_prover", "build_verifier"} =>
          /\ outcome.result = "returned"
          /\ circuit_data.kind = "CircuitData"
\* The range tomove searches for the quotient degree factor of a compiled circuit.
compiled_quotient_range ==
    (compiled_max_filtered_constraint_degree - 1)
        ..Min({config.max_quotient_degree_factor, Pow2(config.rate_bits)})

\* C11: once compiled, q has the least num_partial_products(num_routed_wires, q) + q
\* of the range [max_filtered_constraint_degree - 1,
\* min(config.max_quotient_degree_factor, 2^rate_bits)], and is the smallest
\* q of the range with that value.
C11_QuotientMinimal ==
    Built =>
        LET q == circuit_data.common.quotient_degree_factor
            n == config.num_routed_wires
        IN /\ q \in compiled_quotient_range
           /\ \A r \in compiled_quotient_range :
                 /\ num_partial_products(n, q) + q <= num_partial_products(n, r) + r
                 /\ (num_partial_products(n, q) + q = num_partial_products(n, r) + r
                     => q <= r)

\* A compiled circuit whose range holds another factor with the same least
\* value as the selected one.
C11_Witness ==
    /\ Built
    /\ LET q == circuit_data.common.quotient_degree_factor
           n == config.num_routed_wires
       IN \E r \in compiled_quotient_range :
             /\ r # q
             /\ num_partial_products(n, q) + q = num_partial_products(n, r) + r
\* The Targets that constants_to_targets holds, the ones constant created.
constant_targets == {constants_to_targets[c] : c \in DOMAIN constants_to_targets}

====
